---- MODULE Spec2Model ----
(***************************************************************************)
(* Job-Posting-Dashboards: the load / clean / filter / aggregate pipeline  *)
(* of main_dash.py, testdash.py and testdash2.py.                          *)
(*                                                                         *)
(* Text is modelled character by character: a Python str is a sequence of  *)
(* one-character strings, so that strip(), lower(), split() and the `in`   *)
(* substring test are computed, not assumed.  An instant (datetime /       *)
(* Timestamp) is a record [day, sec]: the proleptic Gregorian ordinal of   *)
(* its date (date.toordinal()) and the second of that day.                 *)
(***************************************************************************)
EXTENDS Integers, Sequences, FiniteSets, TLC

\* script: the program this run executes; each of the three scripts is a
\*   program of its own
\* sheet:  the Google sheet; now: the wall clock
\* probe:  the argument and results of direct parse_relative_date calls
\* hdr:    a raw header row and the column names made of it
\* td, td2: the module-level state of testdash.py / testdash2.py
\* dash2:  the last return value of testdash2's update_dashboard
\* md:     the last return value of main_dash's update_table
\* drawer: the style and children of main_dash's drawer, and the last
\*   drawer callback with its arguments
VARIABLES script, sheet, now, probe, hdr, td, td2, dash2, md, drawer

vars == <<script, sheet, now, probe, hdr, td, td2, dash2, md, drawer>>

(***************************************************************************)
(* Python str methods                                                      *)
(***************************************************************************)
UpperChars ==
  <<"A","B","C","D","E","F","G","H","I","J","K","L","M",
    "N","O","P","Q","R","S","T","U","V","W","X","Y","Z">>

LowerChars ==
  <<"a","b","c","d","e","f","g","h","i","j","k","l","m",
    "n","o","p","q","r","s","t","u","v","w","x","y","z">>

IsSpace(c) == c \in {" ", "\t", "\n"}

lowerChar(c) ==
  IF \E i \in 1..Len(UpperChars) : UpperChars[i] = c
  THEN LowerChars[CHOOSE i \in 1..Len(UpperChars) : UpperChars[i] = c]
  ELSE c

\* str.lower()
lower(s) == [i \in 1..Len(s) |-> lowerChar(s[i])]

\* str.strip(): the text without its leading and trailing whitespace
strip(s) ==
  LET idx == {i \in 1..Len(s) : ~IsSpace(s[i])}
  IN  IF idx = {} THEN <<>>
      ELSE SubSeq(s, CHOOSE i \in idx : \A j \in idx : i <= j,
                     CHOOSE i \in idx : \A j \in idx : i >= j)

\* sub in s
contains(s, sub) ==
  \E i \in 0..(Len(s) - Len(sub)) : SubSeq(s, i + 1, i + Len(sub)) = sub

\* str.split(sep) for a one-character separator: every segment, empty ones too
RECURSIVE split_on(_, _)
split_on(s, sep) ==
  LET cut == {i \in 1..Len(s) : s[i] = sep}
  IN  IF cut = {} THEN <<s>>
      ELSE LET k == CHOOSE i \in cut : \A j \in cut : i <= j
           IN  <<SubSeq(s, 1, k - 1)>> \o split_on(SubSeq(s, k + 1, Len(s)), sep)

\* str.split(): the maximal runs of non-whitespace
RECURSIVE split_ws(_)
split_ws(s) ==
  LET t == strip(s)
      sp == {i \in 1..Len(t) : IsSpace(t[i])}
  IN  IF t = <<>> THEN <<>>
      ELSE IF sp = {} THEN <<t>>
      ELSE LET k == CHOOSE i \in sp : \A j \in sp : i <= j
           IN  <<SubSeq(t, 1, k - 1)>> \o split_ws(SubSeq(t, k + 1, Len(t)))

Digits == <<"0","1","2","3","4","5","6","7","8","9">>

IsDigit(c) == \E i \in 1..10 : Digits[i] = c

digitVal(c) == (CHOOSE i \in 1..10 : Digits[i] = c) - 1

RECURSIVE digitsVal(_)
digitsVal(s) ==
  IF s = <<>> THEN 0
  ELSE 10 * digitsVal(SubSeq(s, 1, Len(s) - 1)) + digitVal(s[Len(s)])

\* int(tok) on a token without whitespace: an optional sign and decimal
\* digits; anything else is a ValueError
int_ok(tok) ==
  LET body == IF tok # <<>> /\ tok[1] \in {"+", "-"} THEN Tail(tok) ELSE tok
  IN  body # <<>> /\ \A i \in 1..Len(body) : IsDigit(body[i])

int_val(tok) ==
  IF tok[1] = "-" THEN 0 - digitsVal(Tail(tok))
  ELSE IF tok[1] = "+" THEN digitsVal(Tail(tok))
  ELSE digitsVal(tok)

(***************************************************************************)
(* Calendar arithmetic of datetime / Timestamp                             *)
(***************************************************************************)
\* datetime.min.toordinal() and datetime.max.toordinal()
MinOrdinal == 1

MaxOrdinal == 3652059

\* timedelta.max.days: timedelta(days=d) raises OverflowError beyond it
MaxDeltaDays == 999999999

\* Timestamp.min / Timestamp.max (nanosecond bounds) as date ordinals
TsMinOrdinal == 612411

TsMaxOrdinal == 825914

IsLeap(y) == y % 4 = 0 /\ (y % 100 # 0 \/ y % 400 = 0)

DaysInMonth(y, m) ==
  IF m = 2 THEN (IF IsLeap(y) THEN 29 ELSE 28)
  ELSE IF m \in {4, 6, 9, 11} THEN 30 ELSE 31

DaysBeforeYear(y) ==
  (y - 1) * 365 + (y - 1) \div 4 - (y - 1) \div 100 + (y - 1) \div 400

RECURSIVE DaysBeforeMonth(_, _)
DaysBeforeMonth(y, m) ==
  IF m = 1 THEN 0 ELSE DaysBeforeMonth(y, m - 1) + DaysInMonth(y, m - 1)

\* date(y, m, d).toordinal()
ymd2ord(y, m, d) == DaysBeforeYear(y) + DaysBeforeMonth(y, m) + d

\* the year of date.fromordinal(n)
ord2year(n) ==
  LET n0   == n - 1
      n400 == n0 \div 146097
      r400 == n0 % 146097
      n100 == r400 \div 36524
      r100 == r400 % 36524
      n4   == r100 \div 1461
      r4   == r100 % 1461
      n1   == r4 \div 365
      y    == n400 * 400 + 1 + n100 * 100 + n4 * 4 + n1
  IN  IF n1 = 4 \/ n100 = 4 THEN y - 1 ELSE y

\* the month of date.fromordinal(n)
ord2month(n) ==
  LET y == ord2year(n)
      k == n - DaysBeforeYear(y)
  IN  CHOOSE m \in 1..12 :
        DaysBeforeMonth(y, m) < k /\ k <= DaysBeforeMonth(y, m) + DaysInMonth(y, m)

\* Timestamp.to_period('M'): the (year, month) bucket, as year * 12 + month - 1
to_period_M(ts) == ord2year(ts.day) * 12 + ord2month(ts.day) - 1

(***************************************************************************)
(* Values a cell or a call can hold                                        *)
(***************************************************************************)
Ts(day, sec) == [kind |-> "ts", day |-> day, sec |-> sec, exc |-> ""]

NaT == [kind |-> "NaT", day |-> 0, sec |-> 0, exc |-> ""]

Raise(e) == [kind |-> "raise", day |-> 0, sec |-> 0, exc |-> e]

None == [kind |-> "None", day |-> 0, sec |-> 0, exc |-> ""]

\* datetime(2025, 9, 5)
FixedReference == Ts(739499, 0)

\* timedelta(days=d): OverflowError beyond timedelta.max;
\* reference_date - timedelta: OverflowError outside datetime.min..datetime.max
minus_days(reference_date, d) ==
  IF d > MaxDeltaDays \/ d < 0 - MaxDeltaDays THEN Raise("OverflowError")
  ELSE IF reference_date.day - d < MinOrdinal \/ reference_date.day - d > MaxOrdinal
       THEN Raise("OverflowError")
  ELSE Ts(reference_date.day - d, reference_date.sec)

\* int(tok) then reference_date - timedelta(days = n * unit)
relative(tok, unit, reference_date) ==
  IF ~int_ok(tok) THEN Raise("ValueError")
  ELSE minus_days(reference_date, int_val(tok) * unit)

\* An ISO calendar date YYYY-MM-DD
IsIsoShape(s) ==
  /\ Len(s) = 10
  /\ s[5] = "-" /\ s[8] = "-"
  /\ \A i \in {1, 2, 3, 4, 6, 7, 9, 10} : IsDigit(s[i])

\* pd.to_datetime(text): the empty text is NaT; a calendar date is its
\* Timestamp; a text that is no date, or a date outside the Timestamp
\* bounds, raises ValueError, or is NaT under errors="coerce".  Only ISO
\* dates are recognised here: the texts the model feeds it are ISO dates
\* or no dates at all.
to_datetime(text, coerce) ==
  LET bad == IF coerce THEN NaT ELSE Raise("ValueError")
      y == digitsVal(SubSeq(text, 1, 4))
      m == digitsVal(SubSeq(text, 6, 7))
      d == digitsVal(SubSeq(text, 9, 10))
  IN  IF text = <<>> THEN NaT
      ELSE IF ~IsIsoShape(text) THEN bad
      ELSE IF y < 1 \/ m < 1 \/ m > 12 THEN bad
      ELSE IF d < 1 \/ d > DaysInMonth(y, m) THEN bad
      ELSE IF ymd2ord(y, m, d) < TsMinOrdinal \/ ymd2ord(y, m, d) > TsMaxOrdinal THEN bad
      ELSE Ts(ymd2ord(y, m, d), 0)

(***************************************************************************)
(* parse_relative_date                                                     *)
(***************************************************************************)
S_ago == <<"a","g","o">>

S_month == <<"m","o","n","t","h">>

S_week == <<"w","e","e","k">>

S_day == <<"d","a","y">>

\* parse_try with a month counted as 31 days
parse_try_month31(date_str, split_src, reference_date, coerce) ==
  LET s == lower(date_str)
  IN  IF contains(s, S_ago) /\ contains(s, S_month)
        THEN relative(split_ws(split_src)[1], 31, reference_date)
      ELSE IF contains(s, S_ago) /\ contains(s, S_week)
        THEN relative(split_ws(split_src)[1], 7, reference_date)
      ELSE IF contains(s, S_ago) /\ contains(s, S_day)
        THEN relative(split_ws(split_src)[1], 1, reference_date)
      ELSE to_datetime(date_str, coerce)

\* The body of the try block, common to both scripts: `split_src` is the
\* text whose first token is the magnitude (date_str in testdash.py, its
\* lower-cased copy in testdash2.py)
parse_try(date_str, split_src, reference_date, coerce) ==
  LET s == lower(date_str)
  IN  IF contains(s, S_ago) /\ contains(s, S_month)
        THEN relative(split_ws(split_src)[1], 30, reference_date)
      ELSE IF contains(s, S_ago) /\ contains(s, S_week)
        THEN relative(split_ws(split_src)[1], 7, reference_date)
      ELSE IF contains(s, S_ago) /\ contains(s, S_day)
        THEN relative(split_ws(split_src)[1], 1, reference_date)
      ELSE to_datetime(date_str, coerce)

\* testdash.py: the default reference is the fixed datetime(2025, 9, 5);
\* except (ValueError, TypeError) returns NaT, any other exception leaves
\* the function
parse_relative_date_testdash(date_str, reference_date) ==
  LET ref == IF reference_date = None THEN FixedReference ELSE reference_date
      r == parse_try(date_str, date_str, ref, FALSE)
  IN  IF r.kind = "raise" /\ r.exc \in {"ValueError", "TypeError"} THEN NaT ELSE r

\* testdash2.py: the default reference is datetime.now(); except Exception
\* returns NaT
parse_relative_date_testdash2(date_str, reference_date, clock) ==
  LET ref == IF reference_date = None THEN clock ELSE reference_date
      r == parse_try(date_str, lower(date_str), ref, TRUE)
  IN  IF r.kind = "raise" THEN NaT ELSE r

(***************************************************************************)
(* Ordering of text (sorted() compares code points)                        *)
(***************************************************************************)
CodeOrder ==
  <<"\t","\n"," ","+",",","-",".">> \o Digits \o UpperChars \o <<"_">> \o LowerChars

CodePoint(c) == CHOOSE i \in 1..Len(CodeOrder) : CodeOrder[i] = c

RECURSIVE StrLess(_, _)
StrLess(a, b) ==
  IF a = <<>> THEN b # <<>>
  ELSE IF b = <<>> THEN FALSE
  ELSE IF a[1] = b[1] THEN StrLess(Tail(a), Tail(b))
  ELSE CodePoint(a[1]) < CodePoint(b[1])

Range(f) == {f[i] : i \in DOMAIN f}

\* sorted(S) of a set of texts
RECURSIVE SortedTexts(_)
SortedTexts(S) ==
  IF S = {} THEN <<>>
  ELSE LET m == CHOOSE x \in S : \A y \in S : x = y \/ StrLess(x, y)
       IN  <<m>> \o SortedTexts(S \ {m})

\* Optional arguments: Python's None, or a value
NoArg == [some |-> FALSE, v |-> <<>>]

Arg(x) == [some |-> TRUE, v |-> x]

\* Python truthiness of an optional list or text
truthy(a) == a.some /\ a.v # <<>>

(***************************************************************************)
(* Column normalisation                                                    *)
(***************************************************************************)
C_job_postings == <<"j","o","b","_","p","o","s","t","i","n","g","s">>

C_company == <<"c","o","m","p","a","n","y">>

C_place == <<"p","l","a","c","e">>

C_status == <<"s","t","a","t","u","s">>

C_posted_on == <<"p","o","s","t","e","d","_","o","n">>

C_url_link == <<"u","r","l","_","l","i","n","k">>

C_job_description == <<"j","o","b","_","d","e","s","c","r","i","p","t","i","o","n">>

\* expected_columns of testdash.py and testdash2.py, in dict order
expected_columns ==
  << <<<<"j","o","b"," ","p","o","s","t","i","n","g","s">>, C_job_postings>>,
     <<<<"c","o","m","p","a","n","y">>, C_company>>,
     <<<<"p","l","a","c","e">>, C_place>>,
     <<<<"s","t","a","t","u","s">>, C_status>>,
     <<<<"p","o","s","t","e","d"," ","o","n">>, C_posted_on>>,
     <<<<"u","r","l"," ","l","i","n","k">>, C_url_link>> >>

\* the rename table of main_dash.load_data
main_columns ==
  expected_columns \o << <<C_job_description, C_job_description>> >>

\* normalize_columns without the lower()
normalize_columns_strip_only(cols) == [i \in 1..Len(cols) |-> strip(cols[i])]

\* df.columns.str.strip().str.lower()
normalize_columns(cols) == [i \in 1..Len(cols) |-> lower(strip(cols[i]))]

\* testdash.py: column_mapping built by the double loop, then df.rename
rename_testdash(cols) ==
  [i \in 1..Len(cols) |->
     LET hit == {k \in 1..Len(expected_columns) :
                   lower(cols[i]) = lower(expected_columns[k][1])}
     IN  IF hit = {} THEN cols[i]
         ELSE expected_columns[CHOOSE k \in hit : \A j \in hit : j <= k][2]]

\* dict.get(col, col) over a rename table
rename_by(table, cols) ==
  [i \in 1..Len(cols) |->
     IF \E k \in 1..Len(table) : table[k][1] = cols[i]
     THEN table[CHOOSE k \in 1..Len(table) : table[k][1] = cols[i]][2]
     ELSE cols[i]]

columns_testdash(header) == rename_testdash(normalize_columns(header))

columns_testdash2(header) == rename_by(expected_columns, normalize_columns(header))

columns_main(header) == rename_by(main_columns, normalize_columns(header))

\* [col for col in expected_columns.values() if col not in df.columns]
missing_cols(cols) ==
  LET want == [k \in 1..Len(expected_columns) |-> expected_columns[k][2]]
      absent(c) == c \notin Range(cols)
  IN  SelectSeq(want, absent)

HasCol(cols, name) == name \in Range(cols)

\* the position of a column (the first of that name)
ColIndex(cols, name) ==
  CHOOSE i \in 1..Len(cols) : cols[i] = name /\ \A j \in 1..(i - 1) : cols[j] # name

(***************************************************************************)
(* pandas helpers                                                          *)
(***************************************************************************)
\* the distinct values of a column in order of first occurrence
RECURSIVE unique(_)
unique(col) ==
  IF col = <<>> THEN <<>>
  ELSE LET init == unique(SubSeq(col, 1, Len(col) - 1))
           x == col[Len(col)]
       IN  IF x \in Range(init) THEN init ELSE Append(init, x)

CountOf(col, x) == Cardinality({i \in 1..Len(col) : col[i] = x})

\* every order of the positions S in which the keys never increase: the
\* outcomes of a descending sort that does not fix the order of equal keys
RECURSIVE DescendingOrders(_, _)
DescendingOrders(S, key) ==
  IF S = {} THEN {<<>>}
  ELSE UNION {{<<i>> \o t : t \in DescendingOrders(S \ {i}, key)} :
                i \in {j \in S : \A k \in S : key[j] >= key[k]}}

\* Series.value_counts(): one entry per distinct value with its count, by
\* count descending.  The sort is sort_values' default quicksort, which is
\* not stable: entries with equal counts come in an order the build chooses.
value_counts(col) ==
  LET d == unique(col)
      cnt == [i \in 1..Len(d) |-> CountOf(col, d[i])]
  IN  {[k \in 1..Len(o) |-> [value |-> d[o[k]], count |-> cnt[o[k]]]] :
         o \in DescendingOrders(1..Len(d), cnt)}

\* .head(5)
TopN == 5

\* a view that is not truncated
head_all(s) == s

head(s) == SubSeq(s, 1, IF Len(s) < TopN THEN Len(s) ELSE TopN)

\* value_counts().sort_index() / groupby(period).size() over month buckets:
\* one entry per bucket present, ascending
RECURSIVE by_month_sorted(_, _)
by_month_sorted(months, S) ==
  IF S = {} THEN <<>>
  ELSE LET m == CHOOSE x \in S : \A y \in S : x <= y
       IN  <<[value |-> m, count |-> CountOf(months, m)]>> \o by_month_sorted(months, S \ {m})

\* a trend with a bucket for every month from the first to the last
by_month_filled(months) ==
  IF months = <<>> THEN <<>>
  ELSE LET lo == CHOOSE x \in Range(months) : \A y \in Range(months) : x <= y
           hi == CHOOSE x \in Range(months) : \A y \in Range(months) : x >= y
       IN  [k \in 1..(hi - lo + 1) |->
              [value |-> lo + k - 1, count |-> CountOf(months, lo + k - 1)]]

by_month(months) == by_month_sorted(months, Range(months))

(***************************************************************************)
(* The sheet and the tables                                                *)
(*                                                                         *)
(* sheet.state: "ok", "not_found" (SpreadsheetNotFound) or "api_error"     *)
(* (any other failure of the request); sheet.values: get_all_values(),     *)
(* the header row first, every cell a text.                                *)
(* A cleaned row is [cells, posted_on, city]: the text cells in column     *)
(* order (the posted_on cell keeps the sheet's text), the parsed posted_on *)
(* and the derived city.                                                   *)
(***************************************************************************)
Cell(cols, cells, name) == cells[ColIndex(cols, name)]

\* df['place'].str.split(',').str[0].str.strip()
city_of(place) == strip(split_on(place, ",")[1])

Column(cols, rows, name) == [i \in 1..Len(rows) |-> Cell(cols, rows[i].cells, name)]

NoViews ==
  [status_counts |-> <<>>, top_companies |-> <<>>, top_places |-> <<>>,
   city_counts |-> <<>>, postings_by_month |-> <<>>]

\* pc: start -> loaded -> parsed -> cleaned -> done (testdash.py) or serving
\* (testdash2.py); "exit" is exit() after a printed error, "raised" an
\* exception that nothing catches
NotRun ==
  [pc |-> "start", error |-> "", exc |-> "", missing |-> <<>>,
   columns |-> <<>>, table |-> <<>>, views |-> NoViews]

Stopped(pc, error, exc, missing, cols) ==
  [pc |-> pc, error |-> error, exc |-> exc, missing |-> missing,
   columns |-> cols, table |-> <<>>, views |-> NoViews]

\* the column renaming of script `which`
columns_of(which, header) ==
  IF which = "testdash" THEN columns_testdash(header) ELSE columns_testdash2(header)

\* From client.open to the missing-columns check
fetch(sh, which) ==
  IF sh.state = "not_found" THEN Stopped("exit", "SpreadsheetNotFound", "", <<>>, <<>>)
  ELSE IF sh.state # "ok" THEN Stopped("raised", "", "APIError", <<>>, <<>>)
  ELSE IF Len(sh.values) < 2 THEN Stopped("exit", "EmptySheet", "", <<>>, <<>>)
  ELSE IF missing_cols(columns_of(which, sh.values[1])) # <<>>
    THEN Stopped("exit", "MissingColumns", "",
                 missing_cols(columns_of(which, sh.values[1])),
                 columns_of(which, sh.values[1]))
  ELSE [NotRun EXCEPT !.pc = "loaded",
          !.columns = columns_of(which, sh.values[1]),
          !.table = [i \in 1..(Len(sh.values) - 1) |->
                       [cells |-> sh.values[i + 1], posted_on |-> None, city |-> <<>>]]]

parse_default_testdash(text) == parse_relative_date_testdash(text, None)

parse_default_testdash2(text) == parse_relative_date_testdash2(text, None, now)

\* parse_relative_date of script `which`, called by apply with no reference
parse_default(which, text) ==
  IF which = "testdash" THEN parse_default_testdash(text)
  ELSE parse_default_testdash2(text)

\* df['posted_on'] = df['posted_on'].apply(parse_relative_date): the first
\* exception that leaves parse_relative_date ends the script
parse_dates(st, which) ==
  LET parsed(i) == parse_default(which, Cell(st.columns, st.table[i].cells, C_posted_on))
      raising == {i \in 1..Len(st.table) : parsed(i).kind = "raise"}
  IN  IF raising # {}
      THEN [st EXCEPT !.pc = "raised", !.table = <<>>,
                      !.exc = parsed(CHOOSE i \in raising : \A j \in raising : i <= j).exc]
      ELSE [st EXCEPT !.pc = "parsed",
                      !.table = [i \in 1..Len(st.table) |->
                                   [st.table[i] EXCEPT !.posted_on = parsed(i)]]]

\* str.strip() of the job_postings, company and place cells and the city
\* column, for one row
clean_row(cols, r) ==
  [cells |-> [j \in 1..Len(r.cells) |->
                IF cols[j] \in {C_job_postings, C_company, C_place}
                THEN strip(r.cells[j]) ELSE r.cells[j]],
   posted_on |-> r.posted_on,
   city |-> city_of(strip(Cell(cols, r.cells, C_place)))]

\* dropna(subset=['posted_on']), then the cleaning of the rows kept
clean_rows(cols, table) ==
  LET valid(r) == r.posted_on.kind = "ts"
  IN  [i \in 1..Len(SelectSeq(table, valid)) |-> clean_row(cols, SelectSeq(table, valid)[i])]

\* status_counts, top_companies, top_places, city_counts and the monthly
\* trend of a cleaned table: every combination the sorts can produce
views_of(cols, table) ==
  {[status_counts |-> sc, top_companies |-> head(tc), top_places |-> head(tp),
    city_counts |-> head(cc),
    postings_by_month |-> by_month([i \in 1..Len(table) |-> to_period_M(table[i].posted_on)])] :
     sc \in value_counts(Column(cols, table, C_status)),
     tc \in value_counts(Column(cols, table, C_company)),
     tp \in value_counts(Column(cols, table, C_place)),
     cc \in value_counts([i \in 1..Len(table) |-> table[i].city])}

\* df.sort_values(by='posted_on', ascending=False): rows by instant
\* descending; the default sort does not fix the order of equal instants
sort_by_posted_desc(table) ==
  LET before(a, b) == a.day < b.day \/ (a.day = b.day /\ a.sec < b.sec)
      key == [i \in 1..Len(table) |->
                Cardinality({j \in 1..Len(table) :
                               before(table[j].posted_on, table[i].posted_on)})]
  IN  {[k \in 1..Len(o) |-> table[o[k]]] : o \in DescendingOrders(1..Len(table), key)}

(***************************************************************************)
(* main_dash.py                                                            *)
(***************************************************************************)
EmptyFrame == [columns |-> <<>>, rows |-> <<>>]

\* load_data(): any exception of the request or of the normalisation is
\* caught and an empty DataFrame returned.  get_all_records() refuses a
\* header row with a repeated header and returns no record for a sheet with
\* no data row; the column normalisation of the resulting empty frame
\* fails, so that load ends in the except branch too.
load_data(sh) ==
  IF sh.state # "ok" THEN EmptyFrame
  ELSE IF Len(sh.values) < 2 THEN EmptyFrame
  ELSE IF Cardinality(Range(sh.values[1])) # Len(sh.values[1]) THEN EmptyFrame
  ELSE [columns |-> columns_main(sh.values[1]), rows |-> Tail(sh.values)]

\* a callback that skips the df.empty test
is_empty_never(df) == FALSE

\* df.empty
is_empty(df) == df.rows = <<>> \/ df.columns = <<>>

\* sorted(df[name].dropna().unique()): the cells are texts, none is NaN
options_of(df, name) ==
  SortedTexts({df.rows[i][ColIndex(df.columns, name)] : i \in 1..Len(df.rows)})

\* [k.strip().lower() for k in keywords.split(",") if k.strip()]
terms_of(keywords) ==
  LET parts == split_on(keywords, ",")
      nonblank(k) == strip(k) # <<>>
      kept == SelectSeq(parts, nonblank)
  IN  [i \in 1..Len(kept) |-> lower(strip(kept[i]))]

\* all(...) where the callback has any(...)
keyword_mask_all(terms, description) ==
  \A k \in 1..Len(terms) : contains(lower(description), terms[k])

\* any(term in text for term in terms) on the lower-cased description
keyword_mask(terms, description) ==
  \E k \in 1..Len(terms) : contains(lower(description), terms[k])

\* df[df[name].isin(values)] when `values` is truthy, else df
filter_isin(df, name, values) ==
  IF ~truthy(values) THEN df
  ELSE LET keep(r) == r[ColIndex(df.columns, name)] \in Range(values.v)
       IN  [df EXCEPT !.rows = SelectSeq(df.rows, keep)]

filter_keywords(df, keywords) ==
  IF ~truthy(keywords) THEN df
  ELSE LET keep(r) ==
             keyword_mask(terms_of(keywords.v), r[ColIndex(df.columns, C_job_description)])
       IN  [df EXCEPT !.rows = SelectSeq(df.rows, keep)]

NotCalled ==
  [called |-> FALSE, companies |-> NoArg, places |-> NoArg, statuses |-> NoArg,
   keywords |-> NoArg, outcome |-> "", exc |-> <<>>, loaded |-> EmptyFrame,
   company_options |-> <<>>, place_options |-> <<>>, status_options |-> <<>>,
   data |-> <<>>]

\* update_table(companies, places, statuses, keywords): the callback's
\* return value, or the KeyError of the first column it reads that the
\* frame does not have
update_table(sh, companies, places, statuses, keywords) ==
  LET df == load_data(sh)
      base == [NotCalled EXCEPT !.called = TRUE, !.companies = companies,
                 !.places = places, !.statuses = statuses, !.keywords = keywords,
                 !.loaded = df]
      need == <<C_company, C_place, C_status>>
                \o (IF truthy(keywords) THEN <<C_job_description>> ELSE <<>>)
      lacks(c) == ~HasCol(df.columns, c)
      lacking == SelectSeq(need, lacks)
      f1 == filter_isin(df, C_company, companies)
      f2 == filter_isin(f1, C_place, places)
      f3 == filter_isin(f2, C_status, statuses)
      f4 == filter_keywords(f3, keywords)
  IN  IF is_empty(df) THEN [base EXCEPT !.outcome = "ok"]
      ELSE IF lacking # <<>>
        THEN [base EXCEPT !.outcome = "raised", !.exc = lacking[1]]
      ELSE [base EXCEPT !.outcome = "ok",
              !.company_options = options_of(df, C_company),
              !.place_options = options_of(df, C_place),
              !.status_options = options_of(df, C_status),
              !.data = f4.rows]

(***************************************************************************)
(* main_dash.py: the drawer                                                *)
(***************************************************************************)
\* style= of html.Div(id="drawer")
InitialStyle ==
  [position |-> "fixed", top |-> 0, right |-> "-40%", height |-> "100%",
   width |-> "40%", backgroundColor |-> "white",
   boxShadow |-> "-2px 0px 5px rgba(0,0,0,0.3)", padding |-> "20px",
   overflowY |-> "scroll", transition |-> "right 0.5s ease-in-out", zIndex |-> 1000]

\* n_clicks of the close button: None or a count
NoClicks == [some |-> FALSE, v |-> 0]

Clicks(n) == [some |-> TRUE, v |-> n]

NoCallback ==
  [op |-> "none", selected_rows |-> NoArg, n_clicks |-> NoClicks,
   table_data |-> EmptyFrame, raised |-> FALSE, before_style |-> InitialStyle,
   before_children |-> <<>>]

\* children=[]; the children are <<>> or the one html.Div display_drawer builds
DrawerInit == [style |-> InitialStyle, children |-> <<>>, last |-> NoCallback]

\* row.get(name, default): the records of the table carry the frame's columns
row_get(cols, row, name, default) ==
  IF HasCol(cols, name) THEN Cell(cols, row, name) ELSE default

\* description.replace("\n", " ")
replace_newlines(s) == [i \in 1..Len(s) |-> IF s[i] = "\n" THEN " " ELSE s[i]]

\* [html.Li(part.strip()) for part in ....split(",") if part.strip()]
bullets_of(description) ==
  LET nonblank(part) == strip(part) # <<>>
  IN  [i \in 1..Len(SelectSeq(split_on(replace_newlines(description), ","), nonblank)) |->
         strip(SelectSeq(split_on(replace_newlines(description), ","), nonblank)[i])]

\* desc_content
desc_content_of(description) ==
  IF description # <<>> /\ strip(description) # <<>>
  THEN [tag |-> "Ul", items |-> bullets_of(description)]
  ELSE [tag |-> "P", items |-> <<<<"N","o"," ","d","e","s","c","r","i","p","t","i","o","n"," ","a","v","a","i","l","a","b","l","e",".">>>>]

\* content: the html.Div built from one record of the table
content_of(cols, row) ==
  [title |-> row_get(cols, row, C_job_postings, <<"N","/","A">>),
   company |-> row_get(cols, row, C_company, <<"N","/","A">>),
   place |-> row_get(cols, row, C_place, <<"N","/","A">>),
   status |-> row_get(cols, row, C_status, <<"N","/","A">>),
   posted_on |-> row_get(cols, row, C_posted_on, <<"N","/","A">>),
   href |-> row_get(cols, row, C_url_link, <<"#">>),
   description |->
     desc_content_of(row_get(cols, row, C_job_description, <<"N","o"," ","d","e","s","c","r","i","p","t","i","o","n"," ","a","v","a","i","l","a","b","l","e">>))]

\* display_drawer(selected_rows, table_data, drawer_style): the returned
\* style and children, or the IndexError of table_data[selected_rows[0]]
display_drawer(selected_rows, table_data, drawer_style) ==
  IF ~truthy(selected_rows) \/ table_data.rows = <<>>
  THEN [raised |-> FALSE, style |-> [drawer_style EXCEPT !.right = "-40%"], children |-> <<>>]
  ELSE IF selected_rows.v[1] >= Len(table_data.rows)
    THEN [raised |-> TRUE, style |-> drawer_style, children |-> <<>>]
  ELSE [raised |-> FALSE, style |-> [drawer_style EXCEPT !.right = "0%"],
        children |-> <<content_of(table_data.columns, table_data.rows[selected_rows.v[1] + 1])>>]

\* a close callback that hides the drawer whatever n_clicks is
close_drawer_always(n_clicks, drawer_style) == [drawer_style EXCEPT !.right = "-40%"]

\* close_drawer(n_clicks, drawer_style)
close_drawer(n_clicks, drawer_style) ==
  IF n_clicks.some /\ n_clicks.v # 0
  THEN [drawer_style EXCEPT !.right = "-40%"]
  ELSE drawer_style

(***************************************************************************)
(* testdash2.py: update_dashboard                                          *)
(***************************************************************************)
DashNotCalled ==
  [called |-> FALSE, keyword |-> NoArg, total |-> 0, unique_companies |-> 0,
   unique_places |-> 0, views |-> NoViews, data |-> <<>>]

\* df[df["job_postings"].str.contains(keyword, case=False, na=False)] when
\* keyword is truthy.  The keyword is a regular expression; the keywords
\* drawn here hold no metacharacter, so it matches as a plain substring.
filter_title(cols, table, keyword) ==
  IF ~truthy(keyword) THEN table
  ELSE LET keep(r) == contains(lower(Cell(cols, r.cells, C_job_postings)), lower(keyword.v))
       IN  SelectSeq(table, keep)

(***************************************************************************)
(* Bounds of the model                                                     *)
(***************************************************************************)
\* direct parse_relative_date calls per run
MaxCalls == 2

\* clock steps per run
MaxTicks == 2

\* small magnitudes of relative dates: 0..MaxMagnitude
MaxMagnitude == 2

\* spaces put around a raw header
MaxPad == 1

\* data rows of a sheet
MaxRows == 2

\* data rows of a sheet in the filter runs
MaxFilterRows == 2

\* data rows of a sheet in the aggregation runs
MaxAggRows == 6

\* data rows of a sheet in the monthly-trend runs
MaxTrendRows == 3

\* data rows of a sheet in the drawer runs
MaxDrawerRows == 2

\* largest click count of the close button
MaxClicks == 1

(***************************************************************************)
(* Actions                                                                 *)
(***************************************************************************)
\* testdash.py: open the sheet, read it, rename and check the columns
FetchTestdash ==
  /\ script = "testdash" /\ td.pc = "start"
  /\ td' = fetch(sheet, "testdash")
  /\ UNCHANGED <<script, sheet, now, probe, hdr, td2, dash2, md, drawer>>

\* testdash.py: parse the posted_on column
ParseDatesTestdash ==
  /\ script = "testdash" /\ td.pc = "loaded"
  /\ td' = parse_dates(td, "testdash")
  /\ UNCHANGED <<script, sheet, now, probe, hdr, td2, dash2, md, drawer>>

\* testdash.py: drop the rows without a date, strip, derive the city
CleanTestdash ==
  /\ script = "testdash" /\ td.pc = "parsed"
  /\ td' = [td EXCEPT !.pc = "cleaned", !.table = clean_rows(td.columns, td.table)]
  /\ UNCHANGED <<script, sheet, now, probe, hdr, td2, dash2, md, drawer>>

\* testdash.py: the insights and the monthly trend
InsightsTestdash ==
  /\ script = "testdash" /\ td.pc = "cleaned"
  /\ \E v \in views_of(td.columns, td.table) : td' = [td EXCEPT !.pc = "done", !.views = v]
  /\ UNCHANGED <<script, sheet, now, probe, hdr, td2, dash2, md, drawer>>

\* testdash2.py: open the sheet, read it, rename and check the columns
FetchTestdash2 ==
  /\ script = "testdash2" /\ td2.pc = "start"
  /\ td2' = fetch(sheet, "testdash2")
  /\ UNCHANGED <<script, sheet, now, probe, hdr, td, dash2, md, drawer>>

\* testdash2.py: parse the posted_on column
ParseDatesTestdash2 ==
  /\ script = "testdash2" /\ td2.pc = "loaded"
  /\ td2' = parse_dates(td2, "testdash2")
  /\ UNCHANGED <<script, sheet, now, probe, hdr, td, dash2, md, drawer>>

\* testdash2.py: drop the rows without a date, strip, derive the city,
\* sort by posted_on descending; then the app serves
CleanTestdash2 ==
  /\ script = "testdash2" /\ td2.pc = "parsed"
  /\ \E cleaned \in {clean_rows(td2.columns, td2.table)} :
       \E sorted \in sort_by_posted_desc(cleaned) :
         td2' = [td2 EXCEPT !.pc = "serving", !.table = sorted]
  /\ UNCHANGED <<script, sheet, now, probe, hdr, td, dash2, md, drawer>>

\* testdash2.py: the update_dashboard callback.  It reads the cleaned table
\* and its argument only, so one call per run shows every outcome.
UpdateDashboard(keyword) ==
  /\ script = "testdash2"
  /\ td2.pc = "serving"
  /\ ~dash2.called
  /\ LET filtered == filter_title(td2.columns, td2.table, keyword)
     IN  \E v \in views_of(td2.columns, filtered) :
           dash2' = [called |-> TRUE, keyword |-> keyword,
                     total |-> Len(filtered),
                     unique_companies |->
                       Cardinality(Range(Column(td2.columns, filtered, C_company))),
                     unique_places |->
                       Cardinality(Range(Column(td2.columns, filtered, C_place))),
                     views |-> v, data |-> filtered]
  /\ UNCHANGED <<script, sheet, now, probe, hdr, td, td2, md, drawer>>

\* main_dash.py: the update_table callback.  It loads the sheet anew and
\* keeps nothing between calls, so one call per run shows every outcome.
UpdateTable(companies, places, statuses, keywords) ==
  /\ script = "main_dash"
  /\ ~md.called
  /\ md' = update_table(sheet, companies, places, statuses, keywords)
  /\ UNCHANGED <<script, sheet, now, probe, hdr, td, td2, dash2, drawer>>

\* The data property of the data-table: data=[] of the layout until
\* update_table has returned a table
table_data_now ==
  IF md.called /\ md.outcome = "ok"
  THEN [columns |-> md.loaded.columns, rows |-> md.data]
  ELSE EmptyFrame

\* main_dash.py: the display_drawer callback, run when selected_rows
\* changes.  A callback that raises leaves the drawer as it is.
DisplayDrawer(selected_rows) ==
  /\ script = "main_dash"
  /\ \E r \in {display_drawer(selected_rows, table_data_now, drawer.style)} :
       drawer' = [style |-> IF r.raised THEN drawer.style ELSE r.style,
                  children |-> IF r.raised THEN drawer.children ELSE r.children,
                  last |-> [op |-> "display", selected_rows |-> selected_rows,
                            n_clicks |-> NoClicks, table_data |-> table_data_now,
                            raised |-> r.raised, before_style |-> drawer.style,
                            before_children |-> drawer.children]]
  /\ UNCHANGED <<script, sheet, now, probe, hdr, td, td2, dash2, md>>

\* main_dash.py: the close_drawer callback; it writes the style only
CloseDrawer(n_clicks) ==
  /\ script = "main_dash"
  /\ drawer' = [style |-> close_drawer(n_clicks, drawer.style),
                children |-> drawer.children,
                last |-> [op |-> "close", selected_rows |-> NoArg,
                          n_clicks |-> n_clicks, table_data |-> EmptyFrame,
                          raised |-> FALSE, before_style |-> drawer.style,
                          before_children |-> drawer.children]]
  /\ UNCHANGED <<script, sheet, now, probe, hdr, td, td2, dash2, md>>

\* A direct call parse_relative_date(probe.date_str, probe.reference_date)
ParseCall ==
  /\ script \in {"testdash", "testdash2"}
  /\ probe.given
  /\ probe.calls < MaxCalls
  /\ LET r == IF script = "testdash"
              THEN parse_relative_date_testdash(probe.date_str, probe.reference_date)
              ELSE parse_relative_date_testdash2(probe.date_str, probe.reference_date, now)
     IN  probe' = [probe EXCEPT !.calls = @ + 1, !.out = r, !.at = now,
                                !.prev_out = probe.out, !.prev_at = probe.at]
  /\ UNCHANGED <<script, sheet, now, hdr, td, td2, dash2, md, drawer>>

\* The column normalisation of the script applied to the header row hdr.raw
NormalizeColumns ==
  /\ script \in {"testdash", "testdash2", "main_dash"}
  /\ hdr.given /\ ~hdr.done
  /\ hdr' = [hdr EXCEPT !.done = TRUE,
               !.out = IF script = "testdash" THEN columns_testdash(hdr.raw)
                       ELSE IF script = "testdash2" THEN columns_testdash2(hdr.raw)
                       ELSE columns_main(hdr.raw)]
  /\ UNCHANGED <<script, sheet, now, probe, td, td2, dash2, md, drawer>>

StartNow == Ts(739923, 36000)

\* The clock advances by an hour or by a day
Tick ==
  /\ (now.day - StartNow.day) + (now.sec - StartNow.sec) \div 3600 < MaxTicks
  /\ \/ now' = [now EXCEPT !.sec = @ + 3600]
     \/ now' = [now EXCEPT !.day = @ + 1]
  /\ UNCHANGED <<script, sheet, probe, hdr, td, td2, dash2, md, drawer>>

(***************************************************************************)
(* Inputs                                                                  *)
(***************************************************************************)
\* str(n)
RECURSIVE Decimal(_)
Decimal(n) ==
  IF n < 10 THEN <<Digits[n + 1]>> ELSE Decimal(n \div 10) \o <<Digits[(n % 10) + 1]>>

Spaces(k) == [i \in 1..k |-> " "]

upperChar(c) ==
  IF \E i \in 1..Len(LowerChars) : LowerChars[i] = c
  THEN UpperChars[CHOOSE i \in 1..Len(LowerChars) : LowerChars[i] = c]
  ELSE c

upper(s) == [i \in 1..Len(s) |-> upperChar(s[i])]

NoSheet == [state |-> "not_found", values |-> <<>>]

IdleProbe ==
  [given |-> FALSE, date_str |-> <<>>, reference_date |-> None,
   rel |-> FALSE, n |-> 0, calls |-> 0,
   out |-> None, at |-> None, prev_out |-> None, prev_at |-> None]

IdleHdr == [given |-> FALSE, raw |-> <<>>, done |-> FALSE, out |-> <<>>]

Idle ==
  /\ now = StartNow
  /\ td = NotRun /\ td2 = NotRun /\ dash2 = DashNotCalled /\ md = NotCalled
  /\ drawer = DrawerInit

\* -- relative and absolute date texts --
Magnitudes == (0..MaxMagnitude) \cup {800000, 40000000}

OtherMagnitudes == {<<"t","w","o">>, <<"2",".","5">>, <<"a">>, <<"+","1">>}

UnitWords ==
  {<<"m","o","n","t","h">>, <<"m","o","n","t","h","s">>, <<"W","e","e","k">>, <<"w","e","e","k","s">>, <<"d","a","y">>, <<"D","A","Y","S">>, <<"w","e","e","k","d","a","y","s">>, <<"h","o","u","r","s">>}

AgoWords == {<<"a","g","o">>, <<"A","g","o">>}

OtherDateTexts ==
  {<<>>, <<"y","e","s","t","e","r","d","a","y","-","i","s","h">>, <<"2","0","2","5","-","0","9","-","0","3">>, <<"2","0","2","5","-","0","2","-","3","0">>, <<"1","6","0","0","-","0","1","-","0","1">>,
   <<"a","g","o">>, <<"3"," ","w","e","e","k","s">>, <<"t","o","d","a","y">>}

References == {None, Ts(739266, 0), Ts(60, 43200)}

InitDate ==
  /\ Idle /\ sheet = NoSheet /\ hdr = IdleHdr
  /\ script \in {"testdash", "testdash2"}
  /\ \E ref \in References :
       \/ \E n \in Magnitudes, u \in UnitWords, a \in AgoWords :
            probe = [IdleProbe EXCEPT !.given = TRUE, !.reference_date = ref,
                       !.rel = TRUE, !.n = n,
                       !.date_str = Decimal(n) \o <<" ">> \o u \o <<" ">> \o a]
       \/ \E m \in OtherMagnitudes, u \in UnitWords, a \in AgoWords :
            probe = [IdleProbe EXCEPT !.given = TRUE, !.reference_date = ref,
                       !.date_str = m \o <<" ">> \o u \o <<" ">> \o a]
       \/ \E x \in OtherDateTexts :
            probe = [IdleProbe EXCEPT !.given = TRUE, !.reference_date = ref,
                       !.date_str = x]

NextDate == ParseCall \/ Tick

SpecDate == InitDate /\ [][NextDate]_vars

\* -- raw headers --
HeaderBases == {<<"P","o","s","t","e","d"," ","O","n">>, <<"C","o","m","p","a","n","y">>, <<"J","o","b"," ","P","o","s","t","i","n","g","s">>, <<"N","o","t","e","s">>, <<"j","o","b","_","d","e","s","c","r","i","p","t","i","o","n">>}

RawHeaders ==
  {Spaces(l) \o c \o Spaces(r) :
     l \in 0..MaxPad, r \in 0..MaxPad,
     c \in UNION {{b, upper(b), lower(b)} : b \in HeaderBases}}

InitHeaders ==
  /\ Idle /\ sheet = NoSheet /\ probe = IdleProbe
  /\ script \in {"testdash", "testdash2", "main_dash"}
  /\ \E h1 \in RawHeaders, h2 \in RawHeaders :
       hdr = [IdleHdr EXCEPT !.given = TRUE, !.raw = <<h1, h2>>]

NextHeaders == NormalizeColumns

SpecHeaders == InitHeaders /\ [][NextHeaders]_vars

\* -- sheets of the load runs --
HeaderStd ==
  <<<<"J","o","b"," ","P","o","s","t","i","n","g","s">>, <<"C","o","m","p","a","n","y">>, <<"P","l","a","c","e">>, <<"S","t","a","t","u","s">>, <<"P","o","s","t","e","d"," ","O","n">>, <<"U","r","l"," ","L","i","n","k">>,
    <<"J","o","b","_","D","e","s","c","r","i","p","t","i","o","n">>>>

HeaderVar ==
  <<<<" ","j","o","b"," ","p","o","s","t","i","n","g","s">>, <<"C","O","M","P","A","N","Y"," ">>, <<"p","l","a","c","e">>, <<"S","T","A","T","U","S">>, <<"p","o","s","t","e","d"," ","o","n"," ">>, <<"U","R","L"," ","L","I","N","K">>,
    <<"j","o","b","_","d","e","s","c","r","i","p","t","i","o","n">>>>

\* a row without its k-th cell (k = 0: the whole row)
DropAt(row, k) ==
  IF k = 0 THEN row ELSE SubSeq(row, 1, k - 1) \o SubSeq(row, k + 1, Len(row))

\* cells in the order of HeaderStd
RowCorpus ==
  {<<<<"D","e","v">>, <<" ","A","c","m","e">>, <<"P","u","n","e",","," ","M","H">>, <<"O","p","e","n">>, <<"1"," ","w","e","e","k"," ","a","g","o">>, <<"u">>, <<"P","y","t","h","o","n",","," ","A","W","S">>>>,
   <<<<"Q","A"," ">>, <<"A","c","m","e">>, <<"P","u","n","e"," ">>, <<"O","p","e","n"," ">>, <<"y","e","s","t","e","r","d","a","y","-","i","s","h">>, <<"u">>, <<>> >>,
   <<<<"P","M">>, <<"B","o","l","t">>, <<"G","o","a">>, <<"C","l","o","s","e","d">>, <<"8","0","0","0","0","0"," ","d","a","y","s"," ","a","g","o">>, <<"u">>, <<"j","a","v","a">>>>,
   <<<<"O","p","s">>, <<"A","c","m","e">>, <<"G","o","a",","," ","G","A">>, <<"O","p","e","n">>, <<"2","0","2","5","-","0","9","-","0","3">>, <<"u">>, <<"a","w","s">>>>,
   <<<<"D","e","v">>, <<"B","o","l","t"," ">>, <<"P","u","n","e",","," ","M","H">>, <<"O","p","e","n">>, <<>>, <<"u">>, <<"G","o">>>>}

SeqsUpTo(S, n) == UNION {[1..k -> S] : k \in 0..n}

Scripts == {"testdash", "testdash2", "main_dash"}

Init ==
  /\ Idle /\ probe = IdleProbe /\ hdr = IdleHdr
  /\ script \in Scripts
  /\ \/ sheet \in {[state |-> s, values |-> <<>>] : s \in {"ok", "not_found", "api_error"}}
     \/ \E h \in {HeaderStd, HeaderVar}, k \in 0..Len(HeaderStd),
           rows \in SeqsUpTo(RowCorpus, MaxRows) :
          sheet = [state |-> "ok",
                   values |-> <<DropAt(h, k)>> \o [i \in 1..Len(rows) |-> DropAt(rows[i], k)]]

Next ==
  \/ FetchTestdash \/ ParseDatesTestdash \/ CleanTestdash \/ InsightsTestdash
  \/ FetchTestdash2 \/ ParseDatesTestdash2 \/ CleanTestdash2
  \/ UpdateDashboard(NoArg)
  \/ \E c \in {NoArg, Arg(<<<<"A","c","m","e">>>>)}, k \in {NoArg, Arg(<<"a","w","s">>)} :
       UpdateTable(c, NoArg, NoArg, k)

Spec == Init /\ [][Next]_vars

\* -- sheets and arguments of the filter runs --
\* cells in the order of HeaderStd; every date text parses
FilterCorpus ==
  {<<<<"A","W","S"," ","D","e","v">>, <<"A","c","m","e">>, <<"P","u","n","e">>, <<"O","p","e","n">>, <<"2","0","2","5","-","0","9","-","0","3">>, <<"u">>, <<"P","y","t","h","o","n",","," ","A","W","S">>>>,
   <<<<"Q","A">>, <<"B","o","l","t">>, <<"G","o","a">>, <<"C","l","o","s","e","d">>, <<"1"," ","w","e","e","k"," ","a","g","o">>, <<"u">>, <<>> >>,
   <<<<"J","a","v","a"," ","P","M">>, <<"A","c","m","e">>, <<"G","o","a">>, <<"O","p","e","n">>, <<"2"," ","d","a","y","s"," ","a","g","o">>, <<"u">>, <<"a","w","s"," ","l","a","m","b","d","a">>>>,
   <<<<"P","y","t","h","o","n"," ","O","p","s">>, <<"B","o","l","t">>, <<"P","u","n","e">>, <<"O","p","e","n">>, <<"2","0","2","5","-","0","9","-","0","1">>, <<"u">>, <<"j","a","v","a","s","c","r","i","p","t"," "," ">>>>}

CompanyArgs == {NoArg, Arg(<<>>), Arg(<<<<"A","c","m","e">>>>), Arg(<<<<"A","c","m","e">>, <<"B","o","l","t">>>>)}

PlaceArgs == {NoArg, Arg(<<<<"G","o","a">>>>)}

StatusArgs == {NoArg, Arg(<<>>), Arg(<<<<"O","p","e","n">>>>)}

KeywordArgs ==
  {NoArg, Arg(<<>>), Arg(<<" ",","," ">>), Arg(<<"a","w","s">>), Arg(<<"A","W","S",","," ","p","y","t","h","o","n">>), Arg(<<" ","J","a","v","a"," ",",">>)}

InitFilter ==
  /\ Idle /\ probe = IdleProbe /\ hdr = IdleHdr
  /\ script \in {"main_dash", "testdash2"}
  /\ \E rows \in SeqsUpTo(FilterCorpus, MaxFilterRows) :
       sheet = [state |-> "ok", values |-> <<HeaderStd>> \o rows]

NextFilter ==
  \/ FetchTestdash2 \/ ParseDatesTestdash2 \/ CleanTestdash2
  \/ \E k \in KeywordArgs : UpdateDashboard(k)
  \/ \E c \in CompanyArgs, p \in PlaceArgs, s \in StatusArgs, k \in KeywordArgs :
       UpdateTable(c, p, s, k)

SpecFilter == InitFilter /\ [][NextFilter]_vars

\* -- sheets of the aggregation runs --
\* The value patterns of n rows: row i carries the p[i]-th value, values
\* numbered by first occurrence
RECURSIVE Patterns(_)
Patterns(n) ==
  IF n = 0 THEN {<<>>}
  ELSE UNION {{Append(p, v) : v \in 1..(Cardinality(Range(p)) + 1)} : p \in Patterns(n - 1)}

CompanyName(k) == <<"C","o">> \o Decimal(k)

\* places of two cities
PlaceName(k) == (IF k % 2 = 1 THEN <<"P","u","n","e">> ELSE <<"G","o","a">>) \o <<","," ","R">> \o Decimal(k)

\* Row i of a sheet whose `field` column follows a pattern; later rows are
\* more recent, all dates differ
AggRow(i, k, field) ==
  <<<<"D","e","v">>,
    IF field = "company" THEN CompanyName(k) ELSE <<"A","c","m","e">>,
    IF field = "place" THEN PlaceName(k) ELSE <<"P","u","n","e",","," ","M","H">>,
    <<"O","p","e","n">>, Decimal(30 - i) \o <<" ","d","a","y","s"," ","a","g","o">>, <<"u">>, <<>> >>

InitAgg ==
  /\ Idle /\ probe = IdleProbe /\ hdr = IdleHdr
  /\ script \in {"testdash", "testdash2"}
  /\ \E n \in 0..MaxAggRows, field \in {"company", "place"} :
       \E p \in Patterns(n) :
         sheet = [state |-> "ok",
                  values |-> <<HeaderStd>> \o [i \in 1..n |-> AggRow(i, p[i], field)]]

NextAgg ==
  \/ FetchTestdash \/ ParseDatesTestdash \/ CleanTestdash \/ InsightsTestdash
  \/ FetchTestdash2 \/ ParseDatesTestdash2 \/ CleanTestdash2
  \/ UpdateDashboard(NoArg)

SpecAgg == InitAgg /\ [][NextAgg]_vars

\* -- sheets of the monthly-trend runs --
\* posted-on texts: March and May 2025 with no April, a December of the
\* year before, a relative text and one that does not parse
TrendDates ==
  {<<"2","0","2","5","-","0","3","-","1","0">>, <<"2","0","2","5","-","0","5","-","0","2">>, <<"2","0","2","5","-","0","5","-","2","0">>, <<"2","0","2","4","-","1","2","-","3","1">>, <<"1"," ","w","e","e","k"," ","a","g","o">>,
   <<"y","e","s","t","e","r","d","a","y","-","i","s","h">>}

TrendRow(date) == <<<<"D","e","v">>, <<"A","c","m","e">>, <<"P","u","n","e">>, <<"O","p","e","n">>, date, <<"u">>, <<>> >>

InitTrend ==
  /\ Idle /\ probe = IdleProbe /\ hdr = IdleHdr
  /\ script \in {"testdash", "testdash2"}
  /\ \E dates \in SeqsUpTo(TrendDates, MaxTrendRows) :
       sheet = [state |-> "ok",
                values |-> <<HeaderStd>> \o [i \in 1..Len(dates) |-> TrendRow(dates[i])]]

NextTrend ==
  \/ FetchTestdash \/ ParseDatesTestdash \/ CleanTestdash \/ InsightsTestdash
  \/ FetchTestdash2 \/ ParseDatesTestdash2 \/ CleanTestdash2
  \/ UpdateDashboard(NoArg)

SpecTrend == InitTrend /\ [][NextTrend]_vars

\* -- sheets and arguments of the drawer runs --
DrawerCorpus ==
  {<<<<"A","W","S"," ","D","e","v">>, <<"A","c","m","e">>, <<"P","u","n","e">>, <<"O","p","e","n">>, <<"2","0","2","5","-","0","9","-","0","3">>, <<"u","1">>, <<"P","y","t","h","o","n",","," ","A","W","S"," ",",">>>>,
   <<<<"Q","A">>, <<"B","o","l","t">>, <<"G","o","a">>, <<"C","l","o","s","e","d">>, <<"1"," ","w","e","e","k"," ","a","g","o">>, <<"u","2">>, <<" "," ">>>>,
   <<<<"J","a","v","a"," ","P","M">>, <<"A","c","m","e">>, <<"G","o","a">>, <<"O","p","e","n">>, <<"2"," ","d","a","y","s"," ","a","g","o">>, <<"u","3">>, <<"a","w","s"," ","l","a","m","b","d","a">>>>}

\* None, [], and [i] for the rows of the table and for one index past them
SelectedArgs == {NoArg, Arg(<<>>)} \cup {Arg(<<i>>) : i \in 0..MaxDrawerRows}

ClickArgs == {NoClicks} \cup {Clicks(n) : n \in 0..MaxClicks}

InitDrawer ==
  /\ Idle /\ probe = IdleProbe /\ hdr = IdleHdr
  /\ script = "main_dash"
  /\ \E k \in {0, Len(HeaderStd)}, rows \in SeqsUpTo(DrawerCorpus, MaxDrawerRows) :
       sheet = [state |-> "ok",
                values |-> <<DropAt(HeaderStd, k)>>
                             \o [i \in 1..Len(rows) |-> DropAt(rows[i], k)]]

NextDrawer ==
  \/ \E c \in {NoArg, Arg(<<<<"A","c","m","e">>>>)} : UpdateTable(c, NoArg, NoArg, NoArg)
  \/ \E s \in SelectedArgs : DisplayDrawer(s)
  \/ \E n \in ClickArgs : CloseDrawer(n)

SpecDrawer == InitDrawer /\ [][NextDrawer]_vars

(***************************************************************************)
(* Properties                                                              *)
(***************************************************************************)
\* The unit of a relative date text by the rule "the first of month, week,
\* day that occurs in it", in days (0: none occurs)
UnitDays(text) ==
  IF contains(lower(text), S_month) THEN 30
  ELSE IF contains(lower(text), S_week) THEN 7
  ELSE IF contains(lower(text), S_day) THEN 1
  ELSE 0

\* parse_relative_date was called with a pinned reference on a text
\* "<N> <unit> ago" whose unit names a month, a week or a day
RelativeCase ==
  /\ probe.calls > 0
  /\ probe.rel
  /\ probe.reference_date # None
  /\ UnitDays(probe.date_str) > 0

RelativeExpected ==
  Ts(probe.reference_date.day - probe.n * UnitDays(probe.date_str),
     probe.reference_date.sec)

\* C3 as stated: for every reference T and every "<N> <unit> ago" the
\* result is exactly T - N * unit (month 30 days, week 7, day 1, the unit
\* being the first of month, week, day that occurs in the text).
C3_RelativeExact == RelativeCase => probe.out = RelativeExpected

\* C3 amended: the result is exactly T - N * unit whenever that instant is
\* one a datetime can hold: N * unit is at most timedelta.max.days and
\* T - N * unit is not before datetime.min.
C3_RelativeExactInRange ==
  (/\ RelativeCase
   /\ probe.n * UnitDays(probe.date_str) <= MaxDeltaDays
   /\ probe.reference_date.day - probe.n * UnitDays(probe.date_str) >= MinOrdinal)
  => probe.out = RelativeExpected

\* "2 weeks ago" against the pinned reference 2025-01-15 gave T - 14 days
C3_Witness ==
  /\ RelativeCase
  /\ probe.date_str = <<"2"," ","w","e","e","k","s"," ","a","g","o">>
  /\ probe.reference_date = Ts(739266, 0)
  /\ probe.out = Ts(739252, 0)

\* C4: parse_relative_date never raises: every call returns a timestamp
\* or NaT, whatever the text.
C4_NeverRaises == probe.calls > 0 => probe.out.kind \in {"ts", "NaT"}

\* Two raw headers that differ only in letter case or in surrounding
\* whitespace
SameLetter(c, d) ==
  c = d \/ \E k \in 1..Len(UpperChars) : {c, d} = {UpperChars[k], LowerChars[k]}

IsCore(s, i, j) ==
  /\ 1 <= i /\ i <= j + 1 /\ j <= Len(s)
  /\ \A k \in 1..Len(s) : (k < i \/ k > j) => IsSpace(s[k])
  /\ i <= j => (~IsSpace(s[i]) /\ ~IsSpace(s[j]))

SameUpToCaseAndPadding(a, b) ==
  \E i1 \in 1..(Len(a) + 1), j1 \in 0..Len(a) :
    /\ IsCore(a, i1, j1)
    /\ \E i2 \in 1..(Len(b) + 1) :
         /\ IsCore(b, i2, i2 + (j1 - i1))
         /\ \A k \in 0..(j1 - i1) : SameLetter(a[i1 + k], b[i2 + k])

CanonicalNames == {main_columns[k][2] : k \in 1..Len(main_columns)}

\* C10: in every script, two raw headers that differ only in letter case or
\* surrounding whitespace get the same column name, every variant of
\* "Posted On" becomes posted_on, and a header that matches no synonym is
\* kept as a column (under its own name, up to case and padding).
C10_HeaderVariantsAgree ==
  hdr.done =>
    /\ Len(hdr.out) = Len(hdr.raw)
    /\ SameUpToCaseAndPadding(hdr.raw[1], hdr.raw[2]) => hdr.out[1] = hdr.out[2]
    /\ \A i \in 1..Len(hdr.raw) :
         /\ SameUpToCaseAndPadding(hdr.raw[i], <<"P","o","s","t","e","d"," ","O","n">>) => hdr.out[i] = C_posted_on
         /\ hdr.out[i] \notin CanonicalNames => SameUpToCaseAndPadding(hdr.out[i], hdr.raw[i])

\* "POSTED ON" and " posted on" were both renamed to posted_on
C10_Witness ==
  /\ hdr.done
  /\ hdr.raw = <<<<"P","O","S","T","E","D"," ","O","N">>, <<" ","p","o","s","t","e","d"," ","o","n">>>>
  /\ hdr.out = <<C_posted_on, C_posted_on>>

\* The columns the load requires
RequiredColumns == {C_job_postings, C_company, C_place, C_status, C_posted_on}

MissingRequired(cols) == {c \in RequiredColumns : ~HasCol(cols, c)}

\* The sheet was read and has a header row and at least one data row
SheetHasRows == sheet.state = "ok" /\ Len(sheet.values) >= 2

\* A script run stopped on the missing-columns check, naming `missing`
StoppedOnMissing(st, missing) ==
  /\ st.pc = "exit"
  /\ st.error = "MissingColumns"
  /\ missing \subseteq Range(st.missing)
  /\ st.table = <<>>

\* C5: in every script, when a required column (job_postings, company,
\* place, status, posted_on) is missing after the header mapping, the load
\* fails with an error that names a missing column and hands no table on.
C5_MissingColumnFailsLoad ==
  SheetHasRows =>
    /\ (script = "testdash" /\ td.pc # "start"
          /\ MissingRequired(columns_testdash(sheet.values[1])) # {})
       => StoppedOnMissing(td, MissingRequired(columns_testdash(sheet.values[1])))
    /\ (script = "testdash2" /\ td2.pc # "start"
          /\ MissingRequired(columns_testdash2(sheet.values[1])) # {})
       => StoppedOnMissing(td2, MissingRequired(columns_testdash2(sheet.values[1])))
    /\ (script = "main_dash" /\ md.called
          /\ MissingRequired(columns_main(sheet.values[1])) # {})
       => /\ md.outcome = "raised"
          /\ md.exc \in MissingRequired(columns_main(sheet.values[1]))
          /\ md.data = <<>>

\* The data rows of the sheet whose posted-on text script `which` parses
\* to a timestamp
ParsingRows(which) ==
  {i \in 2..Len(sheet.values) :
     parse_default(which,
       Cell(columns_of(which, sheet.values[1]), sheet.values[i], C_posted_on)).kind = "ts"}

AllValid(table) == \A i \in 1..Len(table) : table[i].posted_on.kind = "ts"

\* The run of script `which`, in state st, got past the column check
PastColumnCheck(st) == st.pc \in {"raised", "parsed", "cleaned", "done", "serving"}

DatesCleaned(st, which) ==
  (SheetHasRows /\ PastColumnCheck(st)) =>
    /\ st.pc # "raised"
    /\ st.pc \in {"cleaned", "done", "serving"} =>
         /\ AllValid(st.table)
         /\ Len(st.table) = Cardinality(ParsingRows(which))

\* C6: after cleaning every record has a valid posted_on: the records whose
\* date text parses are all kept, the others dropped, no date text aborts
\* the load, and the table update_dashboard displays holds valid dates only.
C6_CleanedDatesValid ==
  /\ script = "testdash" => DatesCleaned(td, "testdash")
  /\ script = "testdash2" => (DatesCleaned(td2, "testdash2") /\ AllValid(dash2.data))

\* C7: when the sheet cannot be read or has no data row, update_table
\* returns empty option lists and an empty table and raises nothing, and
\* the frame it worked on is the empty one.
C7_EmptySourceEmptyResult ==
  (script = "main_dash" /\ md.called /\ ~SheetHasRows) =>
    /\ md.outcome = "ok"
    /\ md.loaded = EmptyFrame
    /\ md.company_options = <<>> /\ md.place_options = <<>> /\ md.status_options = <<>>
    /\ md.data = <<>>

\* update_table returned four empty lists for a sheet with a header row
\* and no data row
C7_Witness ==
  /\ script = "main_dash" /\ md.called
  /\ sheet.state = "ok" /\ Len(sheet.values) = 1
  /\ md.outcome = "ok" /\ md.data = <<>> /\ md.company_options = <<>>

Trimmed(s) == strip(s) = s

ViewsTrimmed(views) ==
  \A v \in {views.status_counts, views.top_companies, views.top_places} :
    \A k \in 1..Len(v) : Trimmed(v[k].value)

\* C9: in every script the company, place and status values that are
\* counted, offered as options or filtered on have no leading or trailing
\* whitespace.
C9_ValuesTrimmed ==
  /\ (script = "testdash" /\ td.pc = "done") => ViewsTrimmed(td.views)
  /\ (script = "testdash2" /\ dash2.called) => ViewsTrimmed(dash2.views)
  /\ (script = "main_dash" /\ md.called /\ md.outcome = "ok") =>
       \A o \in {md.company_options, md.place_options, md.status_options} :
         \A k \in 1..Len(o) : Trimmed(o[k])

\* A list dimension constrains when it is given and not empty
ActiveList(a) == a.some /\ a.v # <<>>

\* The trimmed, case-folded, non-blank terms of a comma-separated text
TermsOfText(text) ==
  {lower(strip(part)) : part \in Range(split_on(text, ","))} \ {<<>>}

\* The description, case-folded, contains one of the terms
MatchesAnyTerm(description, terms) == \E term \in terms : contains(lower(description), term)

\* A row of the frame update_table loaded passes the three list dimensions
PassesLists(r) ==
  /\ ActiveList(md.companies) =>
       r[ColIndex(md.loaded.columns, C_company)] \in Range(md.companies.v)
  /\ ActiveList(md.places) =>
       r[ColIndex(md.loaded.columns, C_place)] \in Range(md.places.v)
  /\ ActiveList(md.statuses) =>
       r[ColIndex(md.loaded.columns, C_status)] \in Range(md.statuses.v)

\* A row passes the keywords dimension, which constrains only when the
\* text holds a non-blank term
PassesKeywordsIfAnyTerm(r) ==
  (md.keywords.some /\ TermsOfText(md.keywords.v) # {}) =>
    MatchesAnyTerm(r[ColIndex(md.loaded.columns, C_job_description)],
                   TermsOfText(md.keywords.v))

PassesAllActive(r) == PassesLists(r) /\ PassesKeywordsIfAnyTerm(r)

\* C1: update_table returns exactly the rows that satisfy every active
\* dimension, in table order; an absent or empty dimension, and a keywords
\* text without a non-blank term such as " , ", imposes no constraint.
C1_FiltersConjoined ==
  (script = "main_dash" /\ md.called /\ SheetHasRows) =>
    /\ md.outcome = "ok"
    /\ md.data = SelectSeq(md.loaded.rows, PassesAllActive)

\* A row passes the keyword filter of update_table
PassesKeywords(r) ==
  MatchesAnyTerm(r[ColIndex(md.loaded.columns, C_job_description)],
                 TermsOfText(md.keywords.v))

PassesListsAndKeywords(r) == PassesLists(r) /\ PassesKeywords(r)

\* A row of the table testdash2.py serves: its description matches a term
DescriptionMatches(r) ==
  MatchesAnyTerm(Cell(td2.columns, r.cells, C_job_description), TermsOfText(dash2.keyword.v))

\* its job title, case-folded, contains the whole case-folded keyword text
TitleContainsKeyword(r) ==
  contains(lower(Cell(td2.columns, r.cells, C_job_postings)), lower(dash2.keyword.v))

IsTopByCount(view, col) ==
  /\ Len(view) = (IF Cardinality(Range(col)) < 5 THEN Cardinality(Range(col)) ELSE 5)
  /\ \A k \in 1..Len(view) :
       /\ view[k].value \in Range(col)
       /\ view[k].count = CountOf(col, view[k].value)
       /\ \A j \in 1..(k - 1) :
            view[j].value # view[k].value /\ view[j].count >= view[k].count
       /\ \A x \in Range(col) :
            (\A j \in 1..Len(view) : view[j].value # x) => CountOf(col, x) <= view[k].count

\* the three top-N views of `views` over the table they were computed from
TopViewsByCount(views, cols, table) ==
  /\ IsTopByCount(views.top_companies, Column(cols, table, C_company))
  /\ IsTopByCount(views.top_places, Column(cols, table, C_place))
  /\ IsTopByCount(views.city_counts, [i \in 1..Len(table) |-> table[i].city])

FirstPos(col, x) == CHOOSE i \in 1..Len(col) : col[i] = x /\ \A j \in 1..(i - 1) : col[j] # x

\* entries of equal count stand in the order in which their values first
\* occur in col
TiesByFirstOccurrence(view, col) ==
  \A j \in 1..Len(view), k \in 1..Len(view) :
    (j < k /\ view[j].count = view[k].count)
      => FirstPos(col, view[j].value) < FirstPos(col, view[k].value)

\* the trimmed cells of a column of the sheet, in the sheet's row order
SheetColumn(cols, name) ==
  [i \in 1..(Len(sheet.values) - 1) |-> strip(Cell(cols, sheet.values[i + 1], name))]

SheetCities(cols) ==
  [i \in 1..(Len(sheet.values) - 1) |-> city_of(strip(Cell(cols, sheet.values[i + 1], C_place)))]

TopViewsTiesInSheetOrder(views, cols) ==
  /\ TiesByFirstOccurrence(views.top_companies, SheetColumn(cols, C_company))
  /\ TiesByFirstOccurrence(views.top_places, SheetColumn(cols, C_place))
  /\ TiesByFirstOccurrence(views.city_counts, SheetCities(cols))

\* C8 as stated: the top-N views by company, place and city hold exactly
\* min(5, distinct values) entries with their record counts, by count
\* descending, equal counts in the order of the values' first occurrence
\* in the input rows.
C8_TopNTiesByFirstOccurrence ==
  /\ (script = "testdash" /\ td.pc = "done") =>
       (TopViewsByCount(td.views, td.columns, td.table)
          /\ TopViewsTiesInSheetOrder(td.views, td.columns))
  /\ (script = "testdash2" /\ dash2.called) =>
       (TopViewsByCount(dash2.views, td2.columns, dash2.data)
          /\ TopViewsTiesInSheetOrder(dash2.views, td2.columns))

\* C8 amended: the top-N views by company, place and city hold exactly
\* min(5, distinct values) entries, each a distinct value with its record
\* count, by count descending, and no value left out has more records than
\* one listed; the order among equal counts is not determined.
C8_TopNByCount ==
  /\ (script = "testdash" /\ td.pc = "done") =>
       TopViewsByCount(td.views, td.columns, td.table)
  /\ (script = "testdash2" /\ dash2.called) =>
       TopViewsByCount(dash2.views, td2.columns, dash2.data)

\* testdash.py listed five of the six companies of a six-row table
C8_Witness ==
  /\ script = "testdash" /\ td.pc = "done"
  /\ Cardinality(Range(Column(td.columns, td.table, C_company))) = 6
  /\ Len(td.views.top_companies) = 5

\* (year, month) of an instant, and of a bucket of the trend
YearMonthOf(ts) == <<ord2year(ts.day), ord2month(ts.day)>>

BucketYearMonth(b) == <<b.value \div 12, (b.value % 12) + 1>>

RECURSIVE SumCounts(_)
SumCounts(view) == IF view = <<>> THEN 0 ELSE view[1].count + SumCounts(Tail(view))

\* `trend` is the monthly trend of `table`: buckets ascending by month, one
\* for each (year, month) among the records and for no other, each with
\* the number of records of that month; the counts add up to the records
IsMonthlyTrend(trend, table) ==
  /\ \A j \in 1..Len(trend), k \in 1..Len(trend) :
       j < k => trend[j].value < trend[k].value
  /\ {BucketYearMonth(trend[k]) : k \in 1..Len(trend)}
       = {YearMonthOf(table[i].posted_on) : i \in 1..Len(table)}
  /\ \A k \in 1..Len(trend) :
       /\ trend[k].count > 0
       /\ trend[k].count =
            Cardinality({i \in 1..Len(table) :
                           YearMonthOf(table[i].posted_on) = BucketYearMonth(trend[k])})
  /\ SumCounts(trend) = Len(table)

\* C11: the monthly trend of a cleaned table has exactly one bucket per
\* (year, month) present among the records, with that month's record
\* count, ascending by month, no bucket for a month without a record, and
\* the counts sum to the number of records.
C11_MonthlyTrend ==
  /\ (script = "testdash" /\ td.pc = "done") =>
       IsMonthlyTrend(td.views.postings_by_month, td.table)
  /\ (script = "testdash2" /\ dash2.called) =>
       IsMonthlyTrend(dash2.views.postings_by_month, dash2.data)

\* records of March and May 2025 and none of April gave the two buckets
\* March (1 record) and May (2 records)
C11_Witness ==
  /\ script = "testdash" /\ td.pc = "done"
  /\ Len(td.table) = 3
  /\ td.views.postings_by_month =
       <<[value |-> 2025 * 12 + 2, count |-> 1], [value |-> 2025 * 12 + 4, count |-> 2]>>

\* parse_relative_date was called on a text "<N> <unit> ago" whose result
\* a datetime can hold when counted back from the time of the call
RelativeCallInRange ==
  /\ probe.calls > 0
  /\ probe.rel
  /\ UnitDays(probe.date_str) > 0
  /\ probe.n * UnitDays(probe.date_str) <= MaxDeltaDays
  /\ probe.at.day - probe.n * UnitDays(probe.date_str) >= MinOrdinal

\* C12: called without a reference, parse_relative_date counts back from
\* the instant of the call, so two such calls on the same text differ by
\* the time elapsed between them; called with a reference, it counts back
\* from that reference whatever the time of the call.
C12_DefaultReferenceIsNow ==
  /\ (RelativeCallInRange /\ probe.reference_date = None) =>
       /\ probe.out = Ts(probe.at.day - probe.n * UnitDays(probe.date_str), probe.at.sec)
       /\ probe.calls >= 2 =>
            /\ probe.out.day - probe.prev_out.day = probe.at.day - probe.prev_at.day
            /\ probe.out.sec - probe.prev_out.sec = probe.at.sec - probe.prev_at.sec
  /\ (RelativeCase /\ probe.reference_date.day - probe.n * UnitDays(probe.date_str) >= MinOrdinal
        /\ probe.n * UnitDays(probe.date_str) <= MaxDeltaDays) =>
       /\ probe.out = RelativeExpected
       /\ probe.calls >= 2 => probe.out = probe.prev_out

\* The style is the initial one but for "right", which is "0%" or "-40%"
StyleKept(style) ==
  /\ style.right \in {"0%", "-40%"}
  /\ [style EXCEPT !.right = InitialStyle.right] = InitialStyle

\* The last callback was display_drawer with a selection and table data
DisplayedWithRow ==
  /\ drawer.last.op = "display"
  /\ truthy(drawer.last.selected_rows)
  /\ drawer.last.table_data.rows # <<>>

\* ... and the selected index is one of the table's
DisplayedRowInTable ==
  DisplayedWithRow /\ drawer.last.selected_rows.v[1] < Len(drawer.last.table_data.rows)

SelectedRow == drawer.last.table_data.rows[drawer.last.selected_rows.v[1] + 1]

\* the cell of the selected row under column `name`, where the table has it
ShowsCell(shown, name) ==
  HasCol(drawer.last.table_data.columns, name) =>
    shown = SelectedRow[ColIndex(drawer.last.table_data.columns, name)]

\* The one child of the drawer shows the selected row
ContentOfSelectedRow ==
  /\ Len(drawer.children) = 1
  /\ ShowsCell(drawer.children[1].title, C_job_postings)
  /\ ShowsCell(drawer.children[1].company, C_company)
  /\ ShowsCell(drawer.children[1].place, C_place)
  /\ ShowsCell(drawer.children[1].status, C_status)
  /\ ShowsCell(drawer.children[1].posted_on, C_posted_on)
  /\ ShowsCell(drawer.children[1].href, C_url_link)

\* C13: after any sequence of display_drawer and close_drawer calls the
\* drawer's "right" is "0%" or "-40%" and every other style key has its
\* initial value; the drawer is open only by a display_drawer call with a
\* selected row and table data (or was open before a call that left the
\* style alone), and that call built the content from the row at index
\* selected_rows[0]; display_drawer without a selection or without table
\* data hides the drawer and clears its content; close_drawer hides it on a
\* positive click count and otherwise leaves the style as it was.
C13_DrawerStyle ==
  /\ StyleKept(drawer.style)
  /\ drawer.style.right = "0%" =>
       \/ DisplayedRowInTable
       \/ /\ drawer.last.before_style.right = "0%"
          /\ \/ drawer.last.op = "display" /\ drawer.last.raised
             \/ drawer.last.op = "close" /\ ~(drawer.last.n_clicks.some /\ drawer.last.n_clicks.v > 0)
  /\ DisplayedRowInTable =>
       (drawer.style.right = "0%" /\ ContentOfSelectedRow)
  /\ (drawer.last.op = "display" /\ ~DisplayedWithRow) =>
       (drawer.style = [drawer.last.before_style EXCEPT !.right = "-40%"]
          /\ drawer.children = <<>>)
  /\ drawer.last.op = "close" =>
       IF drawer.last.n_clicks.some /\ drawer.last.n_clicks.v > 0
       THEN drawer.style = [drawer.last.before_style EXCEPT !.right = "-40%"]
       ELSE drawer.style = drawer.last.before_style

\* display_drawer opened the drawer on the second row of a two-row table,
\* then close_drawer ran with n_clicks = 0 and left it open
C13_Witness ==
  /\ drawer.last.op = "close" /\ drawer.last.n_clicks = Clicks(0)
  /\ drawer.style.right = "0%"
  /\ Len(drawer.children) = 1
  /\ Len(md.data) = 2
  /\ md.data[1][1] # md.data[2][1]
  /\ drawer.children[1].title = md.data[2][1]

====
